---- MODULE Spec2Model ----
(***************************************************************************)
(* A model of package tiny (xxlv/go-tinylib): the generic Result[T, E]     *)
(* value, its synchronous combinators (result.go), the context-aware       *)
(* combinators and the asynchronous combinators (result_context.go,        *)
(* result.go).                                                             *)
(*                                                                         *)
(* One call of one public operation is made per behaviour.  The inputs of  *)
(* the call (the instantiation of the type parameter E, the input Result,  *)
(* the continuation fn, the context, the timeout) are chosen by the Call   *)
(* action; the steps after it are the steps of the goroutines the call     *)
(* runs, the context's signals and the timer.                              *)
(***************************************************************************)
EXTENDS Integers, Sequences, FiniteSets, TLC

\* Bounds of the model.
MaxVal == 1     \* values of T (and U) are 0..MaxVal
MaxLen == 3     \* All is called with at most MaxLen results
MaxWrapDepth == 1   \* Wrap is called on faults wrapped fewer times than this

(***************************************************************************)
(* Types and values.                                                       *)
(***************************************************************************)

\* T and U are instantiated with int; All returns Result[[]int, E].
TVals == 0..MaxVal

\* The instantiations of the type parameter E (constraint: E error): the
\* interface type error itself, and a concrete pointer type *MyErr that
\* implements error.
ETypes == {"error", "*MyErr"}

\* An error value: its dynamic type, whether it is a nil interface / nil
\* pointer, its Error() text (a sequence of text fragments) and the error
\* it wraps (Unwrap), as a sequence of length 0 or 1.
Err(dyn, text) == [dyn |-> dyn, nilp |-> FALSE, text |-> text, cause |-> <<>>]

\* The nil value of the interface type error.
NilError == [dyn |-> "nil", nilp |-> TRUE, text |-> <<>>, cause |-> <<>>]

\* The nil pointer (*MyErr)(nil).
NilMyErr == [dyn |-> "*MyErr", nilp |-> TRUE, text |-> <<>>, cause |-> <<>>]

\* errors.New(text)
ErrorsNew(text) == Err("*errorString", <<text>>)

\* context.Canceled and context.DeadlineExceeded
Canceled == Err("*errorString", <<"context canceled">>)
DeadlineExceeded == Err("deadlineExceededError", <<"context deadline exceeded">>)

\* The zero value of a type (var zero T).
Zero(type) ==
    CASE type = "int" -> 0
      [] type = "[]int" -> <<>>
      [] type = "error" -> NilError
      [] type = "*MyErr" -> NilMyErr

\* The faults a caller builds a Failure from, per instantiation of E.
DomainErrs(e) ==
    IF e = "error"
    THEN {ErrorsNew("boom"), ErrorsNew("oops")}
    ELSE {Err("*MyErr", <<"boom">>), Err("*MyErr", <<"oops">>)}

\* The values of type E a continuation may report as its error: the zero
\* value ("no error") and the domain faults; for E = error also an interface
\* holding a nil *MyErr, which is not the zero value of error.
ValuesOfE(e) ==
    {Zero(e)} \cup DomainErrs(e) \cup (IF e = "error" THEN {NilMyErr} ELSE {})

\* any(err) != nil for err of static type E: an interface value converts to
\* any unchanged; a value of a concrete type converts to a non-nil interface,
\* also when it is a nil pointer.
AnyNotNil(err) == err.dyn # "nil"

\* errors.Is(err, target): err or an error of its Unwrap chain equals target;
\* with a nil err or target it is err == target.
RECURSIVE ErrorsIs(_, _)
ErrorsIs(err, target) ==
    IF err = NilError \/ target = NilError
    THEN err = target
    ELSE \/ err = target
         \/ /\ err.cause # <<>>
            /\ ErrorsIs(err.cause[1], target)

\* The type assertion any(err).(E) succeeds iff the dynamic type of err is
\* E (a concrete E) or implements E (E = error: every non-nil error).
AssertsToE(err, e) ==
    IF e = "error" THEN err.dyn # "nil" ELSE err.dyn = e

(***************************************************************************)
(* Result[T, E] and its constructors.                                      *)
(***************************************************************************)

Ok(t, e, value) == [state |-> "Success", value |-> value, fault |-> Zero(e)]

Fail(t, e, err) == [state |-> "Failure", value |-> Zero(t), fault |-> err]

\* The Results a caller can build with Ok and Fail, and a continuation can
\* return.
Results(e) ==
    {Ok("int", e, v) : v \in TVals} \cup {Fail("int", e, x) : x \in DomainErrs(e)}

(***************************************************************************)
(* The outcome of a synchronous call: the Result it returns (res), the     *)
(* number of times it invokes the continuation (calls) and whether it      *)
(* panics instead of returning (panic).                                    *)
(***************************************************************************)

NoResult == [state |-> "none", value |-> 0, fault |-> NilError]

Returns(res, calls) == [res |-> res, calls |-> calls, panic |-> FALSE]

Panics == [res |-> NoResult, calls |-> 0, panic |-> TRUE]

(***************************************************************************)
(* The synchronous combinators (result.go, result_context.go), as          *)
(* functions from their arguments to an outcome.  fn is a function on      *)
(* TVals.                                                                  *)
(***************************************************************************)

\* r.Then(fn)
Then(rr, f) ==
    IF rr.state = "Failure"
    THEN Returns(rr, 0)
    ELSE Returns(f[rr.value], 1)

\* A Map that leaves fn's value beside the fault it reports.
MapKeepsValue(e, rr, f) ==
    IF rr.state = "Failure"
    THEN Returns(Fail("int", e, rr.fault), 0)
    ELSE LET out == f[rr.value] IN
         IF AnyNotNil(out.err) /\ ~ErrorsIs(out.err, NilError)
         THEN Returns([state |-> "Failure", value |-> out.val, fault |-> out.err], 1)
         ELSE Returns(Ok("int", e, out.val), 1)

\* Map(r, fn), fn returning (val, err)
Map(e, rr, f) ==
    IF rr.state = "Failure"
    THEN Returns(Fail("int", e, rr.fault), 0)
    ELSE LET out == f[rr.value] IN
         IF AnyNotNil(out.err) /\ ~ErrorsIs(out.err, NilError)
         THEN Returns(Fail("int", e, out.err), 1)
         ELSE Returns(Ok("int", e, out.val), 1)

\* r.OrElse(defaultVal)
OrElse(rr, defaultVal) ==
    IF rr.state = "Success"
    THEN Returns(rr.value, 0)
    ELSE Returns(defaultVal, 0)

\* The text %v prints for an error: its Error() text; "<nil>" for a nil
\* interface or a nil pointer receiver.
ErrorText(err) == IF err.nilp THEN <<"<nil>">> ELSE err.text

\* fmt.Errorf("%s: %v", msg, err): the same text, nothing to unwrap.
Errorf_v(msg, err) == Err("*errorString", <<msg, ": ">> \o ErrorText(err))

\* fmt.Errorf("%s: %w", msg, err); a nil interface is no operand for %w.
Errorf_w(msg, err) ==
    IF err = NilError
    THEN Err("*errorString", <<msg, ": ", "%!w(<nil>)">>)
    ELSE [dyn |-> "*wrapError", nilp |-> FALSE,
          text |-> <<msg, ": ">> \o ErrorText(err), cause |-> <<err>>]

\* r.Wrap(msg)
Wrap(rr, msg) ==
    IF rr.state = "Failure"
    THEN Returns(Fail("int", "error", Errorf_w(msg, rr.fault)), 0)
    ELSE Returns(Ok("int", "error", rr.value), 0)

\* r.Unwrap()
Unwrap(e, rr) ==
    IF rr.state = "Failure"
    THEN Returns(rr.fault, 0)
    ELSE Returns(Zero(e), 0)

\* All, were it to keep scanning and report the last Failure.
RECURSIVE AllFromLast(_, _, _)
AllFromLast(e, rs, values) ==
    IF rs = <<>>
    THEN Ok("[]int", e, values)
    ELSE LET rest == AllFromLast(e, Tail(rs), Append(values, Head(rs).value)) IN
         IF Head(rs).state = "Failure" /\ rest.state = "Success"
         THEN Fail("[]int", e, Head(rs).fault)
         ELSE rest

\* All(results...)
RECURSIVE AllFrom(_, _, _)
AllFrom(e, rs, values) ==
    IF rs = <<>>
    THEN Ok("[]int", e, values)
    ELSE IF Head(rs).state = "Failure"
         THEN Fail("[]int", e, Head(rs).fault)
         ELSE AllFrom(e, Tail(rs), Append(values, Head(rs).value))

All(e, rs) == Returns(AllFrom(e, rs, <<>>), 0)

\* r.UnwrapOrPanic()
UnwrapOrPanic(rr) ==
    IF rr.state = "Failure"
    THEN Panics
    ELSE Returns(rr.value, 0)

\* MapErr(r, fn), with F = error
MapErr(rr, f) ==
    IF rr.state = "Failure"
    THEN Returns(Fail("int", "error", f[rr.fault]), 1)
    ELSE Returns(Ok("int", "error", rr.value), 0)

\* The text %v prints for an int of TVals.
Digits == <<"0", "1", "2", "3", "4", "5", "6", "7", "8", "9">>
IntText(v) == <<Digits[v + 1]>>

\* r.String()
String(rr) ==
    IF rr.state = "Success"
    THEN Returns(<<"Ok(">> \o IntText(rr.value) \o <<")">>, 0)
    ELSE Returns(<<"Err(">> \o ErrorText(rr.fault) \o <<")">>, 0)

\* Fail[T, E](any(err).(E)): the Failure synthesized from a cause that is
\* not of static type E; the type assertion panics when err is not an E.
FailFromCause(e, err) ==
    IF AssertsToE(err, e)
    THEN Returns(Fail("int", e, err), 0)
    ELSE Panics

\* ThenWithContext, were it to check the context before the input's state.
ThenWithContextCtxFirst(e, cerr, rr, f) ==
    IF cerr # NilError
    THEN FailFromCause(e, cerr)
    ELSE IF rr.state = "Failure"
         THEN Returns(rr, 0)
         ELSE Returns(f[rr.value], 1)

\* ThenWithContext(ctx, r, fn); cerr is ctx.Err() at the check
ThenWithContext(e, cerr, rr, f) ==
    IF rr.state = "Failure"
    THEN Returns(rr, 0)
    ELSE IF cerr # NilError
         THEN FailFromCause(e, cerr)
         ELSE Returns(f[rr.value], 1)

\* A MapWithContext that compares fn's error with the zero value of E,
\* which Map does not.
MapWithContextZeroCheck(e, cerr, rr, f) ==
    IF rr.state = "Failure"
    THEN Returns(Fail("int", e, rr.fault), 0)
    ELSE IF cerr # NilError
         THEN FailFromCause(e, cerr)
         ELSE LET out == f[rr.value] IN
              IF out.err # Zero(e)
              THEN Returns(Fail("int", e, out.err), 1)
              ELSE Returns(Ok("int", e, out.val), 1)

\* MapWithContext(ctx, r, fn); cerr is ctx.Err() at the check
MapWithContext(e, cerr, rr, f) ==
    IF rr.state = "Failure"
    THEN Returns(Fail("int", e, rr.fault), 0)
    ELSE IF cerr # NilError
         THEN FailFromCause(e, cerr)
         ELSE LET out == f[rr.value] IN
              IF AnyNotNil(out.err) /\ ~ErrorsIs(out.err, NilError)
              THEN Returns(Fail("int", e, out.err), 1)
              ELSE Returns(Ok("int", e, out.val), 1)

\* fmt.Errorf("operation timed out after %v", timeout)
TimeoutError(d) == Err("*errorString", <<"operation timed out after ", d>>)

(***************************************************************************)
(* The state of one call.                                                  *)
(***************************************************************************)

VARIABLES
    op,          \* the operation called; "none" before the call
    E,           \* the instantiation of the type parameter E
    r,           \* the input Result
    fn,          \* the continuation, a function on TVals (or on faults)
    results,     \* the arguments of All
    timeout,     \* the timeout argument
    tokenKind,   \* the context passed: "background", "cancel", "deadline"
    ctxAtCall,   \* ctx.Err() at the time of the call
    ctxErr,      \* ctx.Err() now
    pc,          \* the calling goroutine: "idle", "infn", "returned", "panicked"
    ret,         \* what a synchronous call returned
    pending,     \* what the running fn will make the synchronous call return
    fnCalls,     \* the number of invocations of fn so far
    panicked,    \* a goroutine panicked: the process is gone
    gpc,         \* the goroutine that delivers on ch
    wpc,         \* the goroutine that computes r.Then(fn) for resultChan
    resultChan,  \* the inner channel, capacity 1
    ch,          \* the returned channel, capacity 1
    chClosed,    \* close(ch) was executed
    sent,        \* the Results sent on ch so far, in order
    timer,       \* the timer of time.After / context.WithTimeout
    dErr,        \* ctxWithTimeout.Err()
    first,       \* which of computation, timer, token happened first
    received,    \* the Results the caller received from ch
    sawClosed,   \* the caller received from ch closed and empty
    carry,       \* the Result of the last call, handed to the next call
    carryE       \* the instantiation of E of carry

inputs == <<op, E, r, fn, results, timeout, tokenKind, ctxAtCall, carry, carryE>>
syncState == <<pc, ret, pending>>
asyncState == <<gpc, wpc, resultChan, ch, chClosed, sent, timer, dErr, received, sawClosed>>
vars == <<inputs, ctxErr, syncState, fnCalls, panicked, asyncState, first>>

NoFn == <<>>
NoRet == [tag |-> "none", v |-> NoResult]
Ret(v) == [tag |-> "value", v |-> v]

\* The contexts a caller passes, with ctx.Err() at the time of the call:
\* context.Background(), a WithCancel context (cancelled or not yet), a
\* WithTimeout context (expired or not yet).
Tokens ==
    { <<"background", NilError>>,
      <<"cancel", NilError>>, <<"cancel", Canceled>>,
      <<"deadline", NilError>>, <<"deadline", DeadlineExceeded>> }

NoToken == <<"none", NilError>>

Timeouts == {"50ms", "100ms"}

ThenFns(e) == [TVals -> Results(e)]
MapFns(e) == [TVals -> [val : TVals, err : ValuesOfE(e)]]

\* The Results a call may be given: one built with Ok or Fail, or, when the
\* last call's Result is handed on, that Result.
InputResults(e) ==
    IF carry = NoResult
    THEN Results(e)
    ELSE IF carryE = e THEN {carry} ELSE {}

\* MapErr's fn is defined on the faults it may be given.
MapErrFns(e) ==
    [DomainErrs(e) \cup {rr.fault : rr \in {x \in InputResults(e) : x.state = "Failure"}}
        -> DomainErrs("error")]

\* How many times Wrap wrapped an error.
RECURSIVE WrapDepth(_)
WrapDepth(err) ==
    IF err.cause = <<>> THEN 0 ELSE 1 + WrapDepth(err.cause[1])

\* The messages Wrap is called with.
Msgs == {"context"}

SyncOps ==
    {"Then", "Map", "MapErr", "OrElse", "Wrap", "Unwrap", "UnwrapOrPanic",
     "All", "String", "ThenWithContext", "MapWithContext"}
AsyncOps ==
    {"AsyncThen", "AsyncThenWithTimeout", "AsyncThenWithContext",
     "AsyncThenWithContextAndTimeout"}
ContextOps ==
    {"ThenWithContext", "MapWithContext", "AsyncThenWithContext",
     "AsyncThenWithContextAndTimeout"}

Init ==
    /\ op = "none"
    /\ E = "error"
    /\ r = NoResult
    /\ fn = NoFn
    /\ results = <<>>
    /\ timeout = "none"
    /\ tokenKind = "none"
    /\ ctxAtCall = NilError
    /\ ctxErr = NilError
    /\ pc = "idle"
    /\ ret = NoRet
    /\ pending = NoRet
    /\ fnCalls = 0
    /\ panicked = FALSE
    /\ gpc = "none"
    /\ wpc = "none"
    /\ resultChan = <<>>
    /\ ch = <<>>
    /\ chClosed = FALSE
    /\ sent = <<>>
    /\ timer = "off"
    /\ dErr = NilError
    /\ first = "none"
    /\ received = <<>>
    /\ sawClosed = FALSE
    /\ carry = NoResult
    /\ carryE = "error"

\* The caller makes the synchronous call o with the given arguments; out is
\* the call's outcome.  A call that invokes fn is inside fn until FnReturn.
SyncCall(o, e, rr, f, rs, tok, out) ==
    /\ pc = "idle"
    /\ op' = o
    /\ E' = e
    /\ r' = rr
    /\ fn' = f
    /\ results' = rs
    /\ timeout' = "none"
    /\ tokenKind' = tok[1]
    /\ ctxAtCall' = tok[2]
    /\ ctxErr' = tok[2]
    /\ fnCalls' = out.calls
    /\ panicked' = out.panic
    /\ pc' = IF out.panic THEN "panicked"
             ELSE IF out.calls > 0 THEN "infn" ELSE "returned"
    /\ ret' = IF ~out.panic /\ out.calls = 0 THEN Ret(out.res) ELSE NoRet
    /\ pending' = IF ~out.panic /\ out.calls > 0 THEN Ret(out.res) ELSE NoRet
    /\ carry' = NoResult
    /\ UNCHANGED <<asyncState, first, carryE>>

Call_Then ==
    /\ pc = "idle"
    /\ \E e \in ETypes : \E rr \in InputResults(e), f \in ThenFns(e) :
           SyncCall("Then", e, rr, f, <<>>, NoToken, Then(rr, f))

Call_Map ==
    /\ pc = "idle"
    /\ \E e \in ETypes : \E rr \in InputResults(e), f \in MapFns(e) :
           SyncCall("Map", e, rr, f, <<>>, NoToken, Map(e, rr, f))

Call_MapErr ==
    /\ pc = "idle"
    /\ \E e \in ETypes : \E rr \in InputResults(e), f \in MapErrFns(e) :
           SyncCall("MapErr", e, rr, f, <<>>, NoToken, MapErr(rr, f))

\* The default value is passed in results
Call_OrElse ==
    /\ pc = "idle"
    /\ \E e \in ETypes : \E rr \in InputResults(e), d \in TVals :
           SyncCall("OrElse", e, rr, NoFn, <<d>>, NoToken, OrElse(rr, d))

Call_Wrap ==
    /\ pc = "idle"
    /\ \E e \in ETypes : \E rr \in InputResults(e), msg \in Msgs :
           /\ WrapDepth(rr.fault) < MaxWrapDepth
           /\ SyncCall("Wrap", e, rr, NoFn, <<msg>>, NoToken, Wrap(rr, msg))

Call_Unwrap ==
    /\ pc = "idle"
    /\ \E e \in ETypes : \E rr \in InputResults(e) :
           SyncCall("Unwrap", e, rr, NoFn, <<>>, NoToken, Unwrap(e, rr))

Call_UnwrapOrPanic ==
    /\ pc = "idle"
    /\ \E e \in ETypes : \E rr \in InputResults(e) :
           SyncCall("UnwrapOrPanic", e, rr, NoFn, <<>>, NoToken, UnwrapOrPanic(rr))

Call_String ==
    /\ pc = "idle"
    /\ \E e \in ETypes : \E rr \in InputResults(e) :
           SyncCall("String", e, rr, NoFn, <<>>, NoToken, String(rr))

Call_All ==
    /\ pc = "idle"
    /\ \E e \in ETypes : \E n \in 0..MaxLen : \E rs \in [1..n -> Results(e) \cup InputResults(e)] :
           SyncCall("All", e, NoResult, NoFn, rs, NoToken, All(e, rs))

Call_ThenWithContext ==
    /\ pc = "idle"
    /\ \E e \in ETypes : \E rr \in InputResults(e), f \in ThenFns(e), tok \in Tokens :
           SyncCall("ThenWithContext", e, rr, f, <<>>, tok,
                    ThenWithContext(e, tok[2], rr, f))

Call_MapWithContext ==
    /\ pc = "idle"
    /\ \E e \in ETypes : \E rr \in InputResults(e), f \in MapFns(e), tok \in Tokens :
           SyncCall("MapWithContext", e, rr, f, <<>>, tok,
                    MapWithContext(e, tok[2], rr, f))

\* A return from fn that looks at the token again.
FnReturnObservingToken ==
    /\ pc = "infn"
    /\ ~panicked
    /\ pc' = "returned"
    /\ ret' = IF op \in ContextOps /\ ctxErr # NilError
              THEN Ret(Fail("int", E, ctxErr))
              ELSE pending
    /\ pending' = NoRet
    /\ UNCHANGED <<inputs, ctxErr, fnCalls, panicked, asyncState, first>>

\* fn returns, and with it the synchronous call.
FnReturn ==
    /\ pc = "infn"
    /\ ~panicked
    /\ pc' = "returned"
    /\ ret' = pending
    /\ pending' = NoRet
    /\ UNCHANGED <<inputs, ctxErr, fnCalls, panicked, asyncState, first>>

(***************************************************************************)
(* The asynchronous combinators.  The call makes ch, starts the goroutine  *)
(* that delivers on it and returns ch at once.                             *)
(***************************************************************************)

AsyncCall(o, e, rr, f, d, tok) ==
    /\ pc = "idle"
    /\ op' = o
    /\ E' = e
    /\ r' = rr
    /\ fn' = f
    /\ results' = <<>>
    /\ timeout' = d
    /\ tokenKind' = tok[1]
    /\ ctxAtCall' = tok[2]
    /\ ctxErr' = tok[2]
    /\ pc' = "returned"
    /\ gpc' = "start"
    /\ ch' = <<>>
    /\ chClosed' = FALSE
    /\ first' = IF tok[2] # NilError THEN "token" ELSE "none"
    /\ carry' = NoResult
    /\ UNCHANGED <<carryE, ret, pending, fnCalls, panicked, wpc, resultChan, sent,
                   timer, dErr, received, sawClosed>>

Call_AsyncThen ==
    /\ pc = "idle"
    /\ \E e \in ETypes : \E rr \in InputResults(e), f \in ThenFns(e) :
           AsyncCall("AsyncThen", e, rr, f, "none", NoToken)

Call_AsyncThenWithTimeout ==
    /\ pc = "idle"
    /\ \E e \in ETypes : \E rr \in InputResults(e), f \in ThenFns(e), d \in Timeouts :
           AsyncCall("AsyncThenWithTimeout", e, rr, f, d, NoToken)

Call_AsyncThenWithContext ==
    /\ pc = "idle"
    /\ \E e \in ETypes : \E rr \in InputResults(e), f \in ThenFns(e), tok \in Tokens :
           AsyncCall("AsyncThenWithContext", e, rr, f, "none", tok)

Call_AsyncThenWithContextAndTimeout ==
    /\ pc = "idle"
    /\ \E e \in ETypes :
           \E rr \in InputResults(e), f \in ThenFns(e), d \in Timeouts, tok \in Tokens :
               AsyncCall("AsyncThenWithContextAndTimeout", e, rr, f, d, tok)

\* Which event happened first, once x has happened.
FirstAfter(x) == IF first = "none" THEN x ELSE first

\* The delivering goroutine executes ch <- out.res, or panics evaluating the
\* operand; the deferred close(ch) then runs while the goroutine panics and
\* the process ends.
Deliver(out) ==
    IF out.panic
    THEN /\ panicked' = TRUE
         /\ gpc' = "panicked"
         /\ chClosed' = TRUE
         /\ UNCHANGED <<ch, sent>>
    ELSE /\ Len(ch) < 1
         /\ ch' = Append(ch, out.res)
         /\ sent' = Append(sent, out.res)
         /\ gpc' = "closing"
         /\ UNCHANGED <<panicked, chClosed>>

\* AsyncThen's goroutine evaluates r.Then(fn): a Failure is sent at once, a
\* Success enters fn.
G_Then ==
    /\ op = "AsyncThen"
    /\ gpc = "start"
    /\ ~panicked
    /\ LET out == Then(r, fn) IN
        IF out.calls = 0
        THEN /\ Deliver(out)
             /\ UNCHANGED fnCalls
        ELSE /\ gpc' = "infn"
             /\ fnCalls' = fnCalls + out.calls
             /\ UNCHANGED <<ch, sent, panicked, chClosed>>
    /\ UNCHANGED <<inputs, ctxErr, syncState, wpc, resultChan, timer, dErr,
                   received, sawClosed, first>>

\* fn returns in AsyncThen's goroutine: its Result is sent on ch.
G_ThenReturn ==
    /\ op = "AsyncThen"
    /\ gpc = "infn"
    /\ ~panicked
    /\ Deliver(Then(r, fn))
    /\ UNCHANGED <<inputs, ctxErr, syncState, fnCalls, wpc, resultChan, timer,
                   dErr, received, sawClosed, first>>

\* The deferred calls of the delivering goroutine: cancel() of the derived
\* context (AsyncThenWithContextAndTimeout), then close(ch).
G_Close ==
    /\ gpc = "closing"
    /\ ~panicked
    /\ gpc' = "done"
    /\ chClosed' = TRUE
    /\ IF op = "AsyncThenWithContextAndTimeout"
       THEN /\ dErr' = IF dErr = NilError THEN Canceled ELSE dErr
            /\ timer' = "off"
       ELSE UNCHANGED <<dErr, timer>>
    /\ UNCHANGED <<inputs, ctxErr, syncState, fnCalls, panicked, wpc,
                   resultChan, ch, sent, received, sawClosed, first>>

\* AsyncThenWithTimeout: make resultChan, start the worker, enter the select
\* (time.After starts the timer).
G_StartTimeout ==
    /\ op = "AsyncThenWithTimeout"
    /\ gpc = "start"
    /\ ~panicked
    /\ gpc' = "select"
    /\ wpc' = "spawned"
    /\ resultChan' = <<>>
    /\ timer' = "armed"
    /\ UNCHANGED <<inputs, ctxErr, syncState, fnCalls, panicked, ch, chClosed,
                   sent, dErr, received, sawClosed, first>>

\* AsyncThenWithContext: check ctx.Err(); signaled, deliver the Failure made
\* from it and return; otherwise start the worker and enter the select.
G_StartContext ==
    /\ op = "AsyncThenWithContext"
    /\ gpc = "start"
    /\ ~panicked
    /\ IF ctxErr # NilError
       THEN /\ Deliver(FailFromCause(E, ctxErr))
            /\ UNCHANGED <<wpc, resultChan>>
       ELSE /\ gpc' = "select"
            /\ wpc' = "spawned"
            /\ resultChan' = <<>>
            /\ UNCHANGED <<ch, sent, panicked, chClosed>>
    /\ UNCHANGED <<inputs, ctxErr, syncState, fnCalls, timer, dErr, received,
                   sawClosed, first>>

\* AsyncThenWithContextAndTimeout: the same check, then the derived context
\* context.WithTimeout(ctx, timeout) with its timer, the worker, the select.
G_StartContextAndTimeout ==
    /\ op = "AsyncThenWithContextAndTimeout"
    /\ gpc = "start"
    /\ ~panicked
    /\ IF ctxErr # NilError
       THEN /\ Deliver(FailFromCause(E, ctxErr))
            /\ UNCHANGED <<wpc, resultChan, timer, dErr>>
       ELSE /\ gpc' = "select"
            /\ wpc' = "spawned"
            /\ resultChan' = <<>>
            /\ timer' = "armed"
            /\ dErr' = NilError
            /\ UNCHANGED <<ch, sent, panicked, chClosed>>
    /\ UNCHANGED <<inputs, ctxErr, syncState, fnCalls, received, sawClosed,
                   first>>

\* The worker evaluates r.Then(fn): a Failure is sent on resultChan at once,
\* a Success enters fn.
W_Run ==
    /\ wpc = "spawned"
    /\ ~panicked
    /\ LET out == Then(r, fn) IN
        IF out.calls = 0
        THEN /\ Len(resultChan) < 1
             /\ resultChan' = Append(resultChan, out.res)
             /\ wpc' = "done"
             /\ first' = FirstAfter("computation")
             /\ UNCHANGED fnCalls
        ELSE /\ wpc' = "infn"
             /\ fnCalls' = fnCalls + out.calls
             /\ UNCHANGED <<resultChan, first>>
    /\ UNCHANGED <<inputs, ctxErr, syncState, panicked, gpc, ch, chClosed,
                   sent, timer, dErr, received, sawClosed>>

\* fn returns in a worker whose resultChan has no buffer: the send needs
\* the waiter at its select.
W_ReturnUnbuffered ==
    /\ wpc = "infn"
    /\ ~panicked
    /\ gpc = "select"
    /\ Len(resultChan) < 1
    /\ resultChan' = Append(resultChan, Then(r, fn).res)
    /\ wpc' = "done"
    /\ first' = FirstAfter("computation")
    /\ UNCHANGED <<inputs, ctxErr, syncState, fnCalls, panicked, gpc, ch,
                   chClosed, sent, timer, dErr, received, sawClosed>>

\* fn returns in the worker: its Result is sent on resultChan.
W_Return ==
    /\ wpc = "infn"
    /\ ~panicked
    /\ Len(resultChan) < 1
    /\ resultChan' = Append(resultChan, Then(r, fn).res)
    /\ wpc' = "done"
    /\ first' = FirstAfter("computation")
    /\ UNCHANGED <<inputs, ctxErr, syncState, fnCalls, panicked, gpc, ch,
                   chClosed, sent, timer, dErr, received, sawClosed>>

\* The timer fires: time.After's channel becomes ready; the derived context
\* is cancelled with DeadlineExceeded unless it already has an error.
TimerFire ==
    /\ timer = "armed"
    /\ gpc = "select"
    /\ ~panicked
    /\ timer' = "fired"
    /\ dErr' = IF op = "AsyncThenWithContextAndTimeout" /\ dErr = NilError
               THEN DeadlineExceeded ELSE dErr
    /\ first' = FirstAfter("timer")
    /\ UNCHANGED <<inputs, ctxErr, syncState, fnCalls, panicked, gpc, wpc,
                   resultChan, ch, chClosed, sent, received, sawClosed>>

\* The caller's context is signaled with cause err (for a synchronous call:
\* while the call is inside fn); a derived context that has no error yet is
\* cancelled with the same cause.
Signal(err) ==
    /\ op \in ContextOps
    /\ op \in SyncOps => pc = "infn"
    /\ ctxErr = NilError
    /\ ~panicked
    /\ ctxErr' = err
    /\ dErr' = IF /\ op = "AsyncThenWithContextAndTimeout"
                  /\ gpc = "select"
                  /\ dErr = NilError
               THEN err ELSE dErr
    /\ first' = FirstAfter("token")
    /\ UNCHANGED <<inputs, syncState, fnCalls, panicked, gpc, wpc, resultChan,
                   ch, chClosed, sent, timer, received, sawClosed>>

\* cancel() of the caller's context
CancelToken ==
    /\ tokenKind \in {"cancel", "deadline"}
    /\ Signal(Canceled)

\* the deadline of the caller's context passes
DeadlineToken ==
    /\ tokenKind = "deadline"
    /\ Signal(DeadlineExceeded)

\* select, case result := <-resultChan: ch <- result
G_SelectResult ==
    /\ gpc = "select"
    /\ ~panicked
    /\ resultChan # <<>>
    /\ Deliver(Returns(Head(resultChan), 0))
    /\ resultChan' = Tail(resultChan)
    /\ UNCHANGED <<inputs, ctxErr, syncState, fnCalls, wpc, timer, dErr,
                   received, sawClosed, first>>

\* AsyncThenWithTimeout's select, case <-time.After(timeout)
G_SelectTimeout ==
    /\ op = "AsyncThenWithTimeout"
    /\ gpc = "select"
    /\ ~panicked
    /\ timer = "fired"
    /\ Deliver(FailFromCause(E, TimeoutError(timeout)))
    /\ UNCHANGED <<inputs, ctxErr, syncState, fnCalls, wpc, resultChan, timer,
                   dErr, received, sawClosed, first>>

\* AsyncThenWithContext's select, case <-ctx.Done()
G_SelectDone ==
    /\ op = "AsyncThenWithContext"
    /\ gpc = "select"
    /\ ~panicked
    /\ ctxErr # NilError
    /\ Deliver(FailFromCause(E, ctxErr))
    /\ UNCHANGED <<inputs, ctxErr, syncState, fnCalls, wpc, resultChan, timer,
                   dErr, received, sawClosed, first>>

\* The error AsyncThenWithContextAndTimeout reports for the derived
\* context's error derr.
ReportedCause(derr, d) ==
    IF ErrorsIs(derr, DeadlineExceeded) THEN TimeoutError(d) ELSE derr

\* AsyncThenWithContextAndTimeout's select, case <-ctxWithTimeout.Done()
G_SelectDerivedDone ==
    /\ op = "AsyncThenWithContextAndTimeout"
    /\ gpc = "select"
    /\ ~panicked
    /\ dErr # NilError
    /\ Deliver(FailFromCause(E, ReportedCause(dErr, timeout)))
    /\ UNCHANGED <<inputs, ctxErr, syncState, fnCalls, wpc, resultChan, timer,
                   dErr, received, sawClosed, first>>

\* The caller receives a Result from ch.
Receive ==
    /\ op \in AsyncOps
    /\ ~panicked
    /\ ch # <<>>
    /\ received' = Append(received, Head(ch))
    /\ ch' = Tail(ch)
    /\ UNCHANGED <<inputs, ctxErr, syncState, fnCalls, panicked, gpc, wpc,
                   resultChan, chClosed, sent, timer, dErr, sawClosed, first>>

\* The caller receives from ch closed and empty.
ReceiveClosed ==
    /\ op \in AsyncOps
    /\ ~panicked
    /\ ch = <<>>
    /\ chClosed
    /\ ~sawClosed
    /\ sawClosed' = TRUE
    /\ UNCHANGED <<inputs, ctxErr, syncState, fnCalls, panicked, gpc, wpc,
                   resultChan, ch, chClosed, sent, timer, dErr, received, first>>

Next ==
    \/ Call_Then
    \/ Call_Map
    \/ Call_MapErr
    \/ Call_OrElse
    \/ Call_Wrap
    \/ Call_Unwrap
    \/ Call_UnwrapOrPanic
    \/ Call_String
    \/ Call_All
    \/ Call_ThenWithContext
    \/ Call_MapWithContext
    \/ FnReturn
    \/ Call_AsyncThen
    \/ Call_AsyncThenWithTimeout
    \/ Call_AsyncThenWithContext
    \/ Call_AsyncThenWithContextAndTimeout
    \/ G_Then
    \/ G_ThenReturn
    \/ G_Close
    \/ G_StartTimeout
    \/ G_StartContext
    \/ G_StartContextAndTimeout
    \/ W_Run
    \/ W_Return
    \/ TimerFire
    \/ CancelToken
    \/ DeadlineToken
    \/ G_SelectResult
    \/ G_SelectTimeout
    \/ G_SelectDone
    \/ G_SelectDerivedDone
    \/ Receive
    \/ ReceiveClosed

Spec == Init /\ [][Next]_vars

\* The asynchronous calls alone: the calls, their goroutines, the timer, the
\* token and the caller's receives.
AsyncNext ==
    \/ Call_AsyncThen
    \/ Call_AsyncThenWithTimeout
    \/ Call_AsyncThenWithContext
    \/ Call_AsyncThenWithContextAndTimeout
    \/ G_Then
    \/ G_ThenReturn
    \/ G_Close
    \/ G_StartTimeout
    \/ G_StartContext
    \/ G_StartContextAndTimeout
    \/ W_Run
    \/ W_Return
    \/ TimerFire
    \/ CancelToken
    \/ DeadlineToken
    \/ G_SelectResult
    \/ G_SelectTimeout
    \/ G_SelectDone
    \/ G_SelectDerivedDone
    \/ Receive
    \/ ReceiveClosed

\* The steps of the delivering goroutine and of the worker.
Goroutine ==
    \/ G_Then
    \/ G_ThenReturn
    \/ G_StartTimeout
    \/ G_StartContext
    \/ G_StartContextAndTimeout
    \/ G_SelectResult
    \/ G_SelectTimeout
    \/ G_SelectDone
    \/ G_SelectDerivedDone
    \/ G_Close

Worker ==
    \/ W_Run
    \/ W_Return

\* The scheduler runs every goroutine that can take a step, and fn returns.
\* Nothing makes the caller receive, the timer fire or a token be signaled.
Fairness ==
    /\ WF_vars(Goroutine)
    /\ WF_vars(Worker)

FairSpec == Init /\ [][AsyncNext]_vars /\ Fairness

(***************************************************************************)
(* Sequences of calls: the caller hands the Result of a finished call to   *)
(* its next call.                                                          *)
(***************************************************************************)

\* The operations that return (or deliver) a Result[int, E'].
ChainOps ==
    {"Then", "Map", "MapErr", "Wrap", "ThenWithContext", "MapWithContext"}

\* The type parameters of the Result an operation returns.
OutT == IF op = "All" THEN "[]int" ELSE "int"
OutE == IF op \in {"Wrap", "MapErr"} THEN "error" ELSE E

\* The last call has ended and the caller holds its Result.
Finished ==
    \/ op \in ChainOps /\ pc = "returned"
    \/ /\ op \in AsyncOps
       /\ received # <<>>
       /\ gpc = "done"
       /\ wpc \in {"none", "done"}

LastResult == IF op \in AsyncOps THEN received[1] ELSE ret.v

\* The caller keeps the Result of the finished call for its next call; a
\* Result whose fault Wrap may not wrap again is not handed on.
NextCall ==
    /\ ~panicked
    /\ Finished
    /\ WrapDepth(LastResult.fault) < MaxWrapDepth
    /\ carry' = LastResult
    /\ carryE' = OutE
    /\ op' = "none"
    /\ E' = "error"
    /\ r' = NoResult
    /\ fn' = NoFn
    /\ results' = <<>>
    /\ timeout' = "none"
    /\ tokenKind' = "none"
    /\ ctxAtCall' = NilError
    /\ ctxErr' = NilError
    /\ pc' = "idle"
    /\ ret' = NoRet
    /\ pending' = NoRet
    /\ fnCalls' = 0
    /\ gpc' = "none"
    /\ wpc' = "none"
    /\ resultChan' = <<>>
    /\ ch' = <<>>
    /\ chClosed' = FALSE
    /\ sent' = <<>>
    /\ timer' = "off"
    /\ dErr' = NilError
    /\ first' = "none"
    /\ received' = <<>>
    /\ sawClosed' = FALSE
    /\ UNCHANGED panicked

NextSeq ==
    \/ Next
    \/ NextCall

SpecSeq == Init /\ [][NextSeq]_vars

(***************************************************************************)
(* Properties.                                                             *)
(***************************************************************************)

\* The delivering goroutine of an asynchronous call has ended.
Delivered == gpc \in {"closing", "done", "panicked"}

\* C1: every call of an asynchronous combinator sends exactly one Result on
\* the returned channel and then closes it: never a second send, and the
\* channel is never closed (or left) without its one Result.
C1_ExactlyOneResultThenClosed ==
    op \in AsyncOps =>
        /\ Len(sent) <= 1
        /\ chClosed => Len(sent) = 1

\* C2: for a Failure input, Then, Map, ThenWithContext and MapWithContext
\* (context signaled or not) return a Failure carrying the original fault and
\* never invoke fn.
C2_FailureShortCircuits ==
    (op \in {"Then", "Map", "ThenWithContext", "MapWithContext"}
        /\ r.state = "Failure") =>
        /\ pc = "returned"
        /\ ret = Ret(Fail("int", E, r.fault))
        /\ fnCalls = 0
        /\ ~panicked

\* A Failure was passed to MapWithContext with a cancelled context.
C2_Witness ==
    /\ op = "MapWithContext"
    /\ r.state = "Failure"
    /\ ctxAtCall = Canceled
    /\ pc = "returned"

\* C3: with the context already signaled and a Success input, ThenWithContext
\* returns, and AsyncThenWithContext delivers, a Failure carrying the
\* context's cause; fn is never invoked and AsyncThenWithContext starts no
\* worker.
C3_SignaledContextYieldsCause ==
    /\ (op = "ThenWithContext" /\ r.state = "Success" /\ ctxAtCall # NilError) =>
            /\ pc = "returned"
            /\ ret = Ret(Fail("int", E, ctxAtCall))
            /\ fnCalls = 0
    /\ (op = "AsyncThenWithContext" /\ r.state = "Success"
            /\ ctxAtCall # NilError) =>
            /\ wpc = "none"
            /\ fnCalls = 0
            /\ Delivered => sent = <<Fail("int", E, ctxAtCall)>>

\* C4: with a Failure input, every Result that AsyncThenWithContext,
\* AsyncThenWithContextAndTimeout and AsyncThenWithTimeout deliver is the
\* original Failure, whatever the context and the timer do.
C4_FailureInputDelivered ==
    (op \in {"AsyncThenWithContext", "AsyncThenWithContextAndTimeout",
             "AsyncThenWithTimeout"}
        /\ r.state = "Failure") =>
        \A i \in 1..Len(sent) : sent[i] = r

\* C5: in AsyncThenWithTimeout the first event wins: the delivered Result is
\* the computation's when r.Then(fn) finished before the timer fired, and the
\* timeout Failure when the timer fired before the computation finished.
C5_FirstEventWins ==
    (op = "AsyncThenWithTimeout" /\ sent # <<>>) =>
        /\ first = "computation" => sent[1] = Then(r, fn).res
        /\ first = "timer" => sent[1] = Fail("int", E, TimeoutError(timeout))

\* C6: in AsyncThenWithContextAndTimeout, when the caller's context reaches
\* its own deadline before the extra timeout elapses and before fn finishes,
\* a delivered cancellation Failure carries context.DeadlineExceeded and not
\* the "operation timed out after <duration>" error.
C6_ContextDeadlineKeepsCause ==
    (op = "AsyncThenWithContextAndTimeout"
        /\ r.state = "Success"
        /\ ctxAtCall = NilError
        /\ first = "token"
        /\ ctxErr = DeadlineExceeded
        /\ sent # <<>>) =>
        sent[1] \in {Then(r, fn).res, Fail("int", E, DeadlineExceeded)}

\* C7: in AsyncThenWithContextAndTimeout with a Success input and a context
\* unsignaled at the start: the timeout elapsing first gives the fault
\* "operation timed out after <duration>", the context being cancelled first
\* gives context.Canceled, fn finishing first gives fn's Result.
C7_FirstEventDecides ==
    (op = "AsyncThenWithContextAndTimeout"
        /\ r.state = "Success"
        /\ ctxAtCall = NilError
        /\ sent # <<>>) =>
        /\ first = "timer" => sent[1] = Fail("int", E, TimeoutError(timeout))
        /\ (first = "token" /\ ctxErr = Canceled) =>
                sent[1] = Fail("int", E, Canceled)
        /\ first = "computation" => sent[1] = Then(r, fn).res

\* C8: for every operation and every instantiation of E, the only panic is
\* UnwrapOrPanic on a Failure.
C8_OnlyUnwrapOrPanicPanics ==
    panicked => (op = "UnwrapOrPanic" /\ r.state = "Failure")

\* The positions of the Failures among the arguments of All.
FailurePositions == {i \in 1..Len(results) : results[i].state = "Failure"}

Min(S) == CHOOSE x \in S : \A y \in S : x <= y

\* C9: All returns the Failure of the leftmost Failure argument, with none of
\* the values collected, when there is one; otherwise, also for no arguments,
\* Success holding the arguments' values in order.
C9_AllFirstFailureOrAllValues ==
    op = "All" =>
        /\ pc = "returned"
        /\ fnCalls = 0
        /\ IF FailurePositions # {}
           THEN /\ ret.v.state = "Failure"
                /\ ret.v.fault = results[Min(FailurePositions)].fault
                /\ ret.v.value = <<>>
           ELSE /\ ret.v.state = "Success"
                /\ Len(ret.v.value) = Len(results)
                /\ \A i \in 1..Len(results) : ret.v.value[i] = results[i].value
                /\ ret.v.fault = Zero(E)

\* All was called with a Success followed by two Failures of different faults.
C9_Witness ==
    /\ op = "All"
    /\ pc = "returned"
    /\ Len(results) = 3
    /\ results[1].state = "Success"
    /\ results[2].state = "Failure"
    /\ results[3].state = "Failure"
    /\ results[2].fault # results[3].fault

\* C10: for a Success input (context unsignaled), Map and MapWithContext
\* return Success holding fn's value exactly when fn's error is the zero value
\* of E, the value Unwrap returns for a Success, and Failure carrying fn's
\* error exactly when it is not.
C10_MapJoinsOnZeroError ==
    (op \in {"Map", "MapWithContext"}
        /\ r.state = "Success"
        /\ ctxAtCall = NilError
        /\ pc = "returned") =>
        LET out == fn[r.value] IN
        IF out.err = Unwrap(E, r).res
        THEN ret = Ret(Ok("int", E, out.val))
        ELSE ret = Ret(Fail("int", E, out.err))

\* Exactly one field of a Result[t, e] is meaningful: the other holds its
\* type's zero value.
WellFormed(res, t, e) ==
    /\ res.state \in {"Success", "Failure"}
    /\ res.state = "Success" => res.fault = Zero(e)
    /\ res.state = "Failure" => res.value = Zero(t)

\* Every Result held anywhere is well formed.
AllWellFormed ==
    /\ carry # NoResult => WellFormed(carry, "int", carryE)
    /\ op \notin {"none", "All"} => WellFormed(r, "int", E)
    /\ op = "All" => \A i \in 1..Len(results) : WellFormed(results[i], "int", E)
    /\ (op \in ChainOps \cup {"All"} /\ pc = "returned") =>
            WellFormed(ret.v, OutT, OutE)
    /\ \A i \in 1..Len(resultChan) : WellFormed(resultChan[i], "int", E)
    /\ \A i \in 1..Len(sent) : WellFormed(sent[i], "int", E)
    /\ \A i \in 1..Len(received) : WellFormed(received[i], "int", E)

\* C11: every Result reachable through Ok, Fail and any sequence of
\* combinators and asynchronous deliveries has the zero value of E as its
\* fault when it is a Success and the zero value of T as its value when it is
\* a Failure; and no step of a call changes the Results the call was given.
C11_OneMeaningfulField ==
    /\ []AllWellFormed
    /\ [][(op # "none" /\ op' # "none") => (r' = r /\ results' = results)]_vars

\* A Result that came out of a first call (a cancellation Failure) went
\* through a second one.
C11_Witness ==
    /\ op = "Wrap"
    /\ pc = "returned"
    /\ r = Fail("int", "error", Canceled)
    /\ ret.v.state = "Failure"

\* C12: Wrap(msg) on a Failure returns a Failure whose fault reads
\* "<msg>: <text of the original fault>" (a nil pointer fault prints as
\* "<nil>") and unwraps to the original fault; Wrap(msg) on a Success returns
\* a Success with the same value and no fault.
C12_WrapPrefixesAndKeepsCause ==
    (op = "Wrap" /\ pc = "returned") =>
        IF r.state = "Failure"
        THEN /\ ret.v.state = "Failure"
             /\ ret.v.value = 0
             /\ ret.v.fault.text =
                    <<results[1], ": ">> \o
                    (IF r.fault.nilp THEN <<"<nil>">> ELSE r.fault.text)
             /\ ret.v.fault.cause = <<r.fault>>
             /\ ErrorsIs(ret.v.fault, r.fault)
        ELSE /\ ret.v.state = "Success"
             /\ ret.v.value = r.value
             /\ ret.v.fault = NilError

\* Wrap("context") returned for Fail(errors.New("boom")).
C12_Witness ==
    /\ op = "Wrap"
    /\ pc = "returned"
    /\ r = Fail("int", "error", ErrorsNew("boom"))
    /\ ret.v.fault.text = <<"context", ": ", "boom">>

\* The select took its timer or token case: the goroutine left the select
\* and the worker's Result, sent or still to come, was not taken.
SignalWon ==
    /\ op \in AsyncOps \ {"AsyncThen"}
    /\ wpc # "none"
    /\ gpc \in {"closing", "done", "panicked"}
    /\ (wpc # "done" \/ resultChan # <<>>)

\* The Failure the select's timer or token case delivers.
SignalFailure ==
    Fail("int", E,
         CASE op = "AsyncThenWithTimeout" -> TimeoutError(timeout)
           [] op = "AsyncThenWithContext" -> ctxErr
           [] OTHER -> ReportedCause(dErr, timeout))

\* C13: when the timer or the token wins the race, the worker is not
\* aborted: it can still take each of its remaining steps, fn's return
\* included; and its Result is discarded: the only Result ever sent on the
\* returned channel is the timeout/cancellation Failure.
C13_WorkerRunsOnResultDiscarded ==
    SignalWon =>
        /\ wpc = "spawned" => ENABLED W_Run
        /\ wpc = "infn" => ENABLED W_Return
        /\ sent = <<SignalFailure>>
        /\ ch \in {<<>>, sent}
        /\ received \in {<<>>, sent}

DeliversOnly(x) ==
    /\ ~panicked
    /\ sent \in {<<>>, <<x>>}
    /\ gpc = "done" => (sent = <<x>> /\ chClosed)
    /\ received \in {<<>>, <<x>>}

\* C15: as long as the token is not signaled, ThenWithContext returns what
\* r.Then(fn) returns, MapWithContext what Map(r, fn) returns, invoking fn
\* as often, and AsyncThenWithContext delivers the one Result AsyncThen
\* delivers, the Result of r.Then(fn).
C15_UnsignaledTokenIsPlain ==
    /\ (op = "ThenWithContext" /\ ctxErr = NilError) =>
            /\ ~panicked
            /\ fnCalls = Then(r, fn).calls
            /\ pc = "returned" => ret.v = Then(r, fn).res
    /\ (op = "MapWithContext" /\ ctxErr = NilError) =>
            /\ ~panicked
            /\ fnCalls = Map(E, r, fn).calls
            /\ pc = "returned" => ret.v = Map(E, r, fn).res
    /\ (op = "AsyncThenWithContext" /\ ctxErr = NilError) =>
            DeliversOnly(Then(r, fn).res)
    /\ op = "AsyncThen" => DeliversOnly(Then(r, fn).res)

\* AsyncThenWithContext, its token unsignaled, ran fn and the caller
\* received fn's Result.
C15_Witness ==
    /\ op = "AsyncThenWithContext"
    /\ ctxErr = NilError
    /\ fnCalls = 1
    /\ gpc = "done"
    /\ received = <<fn[r.value]>>

\* No goroutine of the call is left: both have returned, or a panic ended
\* the process.
Terminated ==
    \/ panicked
    \/ gpc = "done" /\ wpc \in {"none", "done"}

\* No send can block: the worker can always take its next step, its send on
\* resultChan included, whatever the waiter did; and the slot of ch is free
\* as long as the delivering goroutine has not sent.
SendsNeverBlock ==
    /\ (~panicked /\ wpc = "spawned") => (resultChan = <<>> /\ ENABLED W_Run)
    /\ (~panicked /\ wpc = "infn") => (resultChan = <<>> /\ ENABLED W_Return)
    /\ gpc \in {"start", "infn", "select"} => ch = <<>>

\* C16: no goroutine of an asynchronous call blocks on a send, whether or
\* not the waiter has already delivered a timeout/cancellation Failure and
\* whether or not the caller receives; so, fn returning, every goroutine the
\* call started eventually terminates.
C16_NoSendBlocksAllTerminate ==
    /\ []SendsNeverBlock
    /\ (op \in AsyncOps) ~> Terminated

\* The timer won; the worker then sent its Result on resultChan, where it
\* stays; the caller never received; every goroutine has ended.
C16_Witness ==
    /\ op = "AsyncThenWithTimeout"
    /\ first = "timer"
    /\ gpc = "done"
    /\ wpc = "done"
    /\ resultChan # <<>>
    /\ ch # <<>>
    /\ received = <<>>

====
